---- MODULE Spec2Model ----
(***************************************************************************)
(* A model of the tasuki orchestration engine: the task store              *)
(* (task_store.py), the planner registry (planner_registry.py), the        *)
(* resilient invocation layer (llm.py chat) and the round scheduler        *)
(* (runner.py).                                                            *)
(*                                                                         *)
(* Python dicts keep insertion order, so TaskStore._tasks and              *)
(* PlannerRegistry._subs are sequences of records with unique ids.         *)
(* Generated ids (task-<uuid8>, sub-<uuid8>) are modelled by numbers.      *)
(***************************************************************************)
EXTENDS Integers, Sequences, FiniteSets, TLC

\* ------------------------------------------------------------------ bounds
MaxTasks == 2
MaxSubs == 1
MaxRoundTasks == 3
MaxRoundSubs == 2
MaxRetries == 2
MaxFallbacks == 2
NThreads == 2
ConcTasks == 2

\* ------------------------------------------------------------------ values
None == <<>>
\* a ledger file that was never written
Absent == [exists |-> FALSE, data |-> <<>>]
File(data) == [exists |-> TRUE, data |-> data]
Root == <<"root">>
EmptyMeta == <<"{}">>

TaskIds == 1..MaxTasks
SubId(n) == <<"sub", n>>
Path(n) == <<"path", n>>
Str(n) == <<"str", n>>
WorkerIds == {<<"w", 1>>}
OwnerIds == {Root, SubId(1)}
HandoffPaths == {Path(1), Path(2)}
Descriptions == {"d"}
ScopeInputs == {"scope", " scope "}

VARIABLES
    tasks,      \* TaskStore._tasks: sequence of Task records, insertion order
    disk,       \* tasks.json: Absent or the saved snapshot
    subs,       \* PlannerRegistry._subs: sequence of SubPlanner records
    pdisk,      \* planners.json: Absent or the saved snapshot
    chat,       \* one invocation of llm.chat: its configuration, position and log
    wk,         \* one call of worker.run_worker: position, locals and the handoff file
    thr,        \* the threads calling the store: position and locals of each
    tasks0,     \* the task table when the concurrent calls began
    rnd,        \* HarnessRunner: position in run_one_round, its locals and futures
    seen        \* ids of the done tasks whose owner has been run with their handoff

storeVars == <<tasks, disk, subs, pdisk>>
llmVars == <<chat, wk>>
concVars == <<thr, tasks0>>
roundVars == <<rnd, seen>>
vars == <<tasks, disk, subs, pdisk, chat, wk, thr, tasks0, rnd, seen>>

\* ------------------------------------------------------------ task_store.py
Task(id, planner_id, description) ==
    [id |-> id, planner_id |-> planner_id, description |-> description,
     status |-> "pending", worker_id |-> None, handoff_path |-> None,
     meta |-> EmptyMeta]

\* str(path)
str(p) == Str(p[2])

\* bool(x) for the values a handoff_path field takes: None and "" are falsy
truthy(x) == x # None /\ x # <<"str", 0>>

Task_to_dict_no_handoff(t) ==
    [id |-> t.id, planner_id |-> t.planner_id, description |-> t.description,
     status |-> t.status, worker_id |-> t.worker_id, handoff_path |-> None,
     meta |-> t.meta]

Task_to_dict(t) ==
    [id |-> t.id, planner_id |-> t.planner_id, description |-> t.description,
     status |-> t.status, worker_id |-> t.worker_id,
     handoff_path |-> IF truthy(t.handoff_path) THEN str(t.handoff_path) ELSE None,
     meta |-> t.meta]

Task_from_dict(d) ==
    [id |-> d.id, planner_id |-> d.planner_id, description |-> d.description,
     status |-> d.status, worker_id |-> d.worker_id,
     handoff_path |-> IF truthy(d.handoff_path) THEN Path(d.handoff_path[2]) ELSE None,
     meta |-> d.meta]

\* position of the record with this id in a dict, 0 when the key is absent
IndexOf(seq, id) ==
    IF \E i \in 1..Len(seq) : seq[i].id = id
    THEN CHOOSE i \in 1..Len(seq) : seq[i].id = id
    ELSE 0

Has(seq, id) == IndexOf(seq, id) # 0

\* d[key] = value on an insertion-ordered dict: replace in place or append
dict_set(seq, rec) ==
    IF Has(seq, rec.id)
    THEN [seq EXCEPT ![IndexOf(seq, rec.id)] = rec]
    ELSE Append(seq, rec)

RECURSIVE dict_set_all(_, _)
dict_set_all(seq, recs) ==
    IF recs = <<>> THEN seq
    ELSE dict_set_all(dict_set(seq, Head(recs)), Tail(recs))

\* the data TaskStore._save writes
TaskStore_snapshot(ts) ==
    [i \in 1..Len(ts) |-> [key |-> ts[i].id, val |-> Task_to_dict(ts[i])]]

\* the table TaskStore._load builds from the file
TaskStore_load(file) ==
    IF ~file.exists THEN <<>>
    ELSE [i \in 1..Len(file.data) |-> Task_from_dict(file.data[i].val)]

TaskStore_add(ts, task) == dict_set(ts, task)

\* add stores the task without a test of task.id: no call of it raises
TaskStore_add_raises(ts, task) == FALSE

TaskStore_add_many(ts, new) == dict_set_all(ts, new)

get_pending_reversed(ts) ==
    LET out == SelectSeq(ts, LAMBDA t : t.status = "pending")
    IN [i \in 1..Len(out) |-> out[Len(out) + 1 - i]]

get_pending(ts) == SelectSeq(ts, LAMBDA t : t.status = "pending")

claim_ok(ts, task_id) ==
    Has(ts, task_id) /\ ts[IndexOf(ts, task_id)].status = "pending"

TaskStore_claim_any(ts, task_id, worker_id) ==
    IF Has(ts, task_id)
    THEN [ts EXCEPT ![IndexOf(ts, task_id)].status = "running",
                    ![IndexOf(ts, task_id)].worker_id = worker_id]
    ELSE ts

TaskStore_claim(ts, task_id, worker_id) ==
    IF claim_ok(ts, task_id)
    THEN [ts EXCEPT ![IndexOf(ts, task_id)].status = "running",
                    ![IndexOf(ts, task_id)].worker_id = worker_id]
    ELSE ts

TaskStore_complete(ts, task_id, handoff_path) ==
    IF Has(ts, task_id)
    THEN [ts EXCEPT ![IndexOf(ts, task_id)].status = "done",
                    ![IndexOf(ts, task_id)].handoff_path = handoff_path]
    ELSE ts

get_handoffs_for_planner(ts, planner_id) ==
    SelectSeq(ts, LAMBDA t : t.planner_id = planner_id /\ t.status = "done"
                             /\ truthy(t.handoff_path))

\* ------------------------------------------------------ planner_registry.py
strip(s) == IF s = " scope " THEN "scope" ELSE s

SubPlanner(id, parent_id, scope) ==
    [id |-> id, parent_id |-> parent_id, scope |-> scope, is_new |-> TRUE]

SubPlanner_to_dict(s) ==
    [id |-> s.id, parent_id |-> s.parent_id, scope |-> s.scope, is_new |-> s.is_new]

SubPlanner_from_dict(d) ==
    [id |-> d.id, parent_id |-> d.parent_id, scope |-> d.scope, is_new |-> d.is_new]

PlannerRegistry_snapshot(ss) == [i \in 1..Len(ss) |-> SubPlanner_to_dict(ss[i])]

PlannerRegistry_load(file) ==
    IF ~file.exists THEN <<>>
    ELSE [i \in 1..Len(file.data) |-> SubPlanner_from_dict(file.data[i])]

NewSubId_repeated(ss) == SubId(1)

\* the id uuid4 draws: one no sub-planner of the registry has
NewSubId(ss) == SubId(Len(ss) + 1)

PlannerRegistry_add_sub(ss, parent_id, scope) ==
    dict_set(ss, SubPlanner(NewSubId(ss), parent_id, strip(scope)))

get_subs_to_run_reversed(ss, ts) ==
    LET out == SelectSeq(ss, LAMBDA s : s.is_new \/ get_handoffs_for_planner(ts, s.id) # <<>>)
    IN [i \in 1..Len(out) |-> out[Len(out) + 1 - i]]

get_subs_to_run_new_only(ss, ts) == SelectSeq(ss, LAMBDA s : s.is_new)

get_subs_to_run(ss, ts) ==
    SelectSeq(ss, LAMBDA s : s.is_new \/ get_handoffs_for_planner(ts, s.id) # <<>>)

mark_run_noop(ss, planner_id) == ss

PlannerRegistry_mark_run(ss, planner_id) ==
    IF Has(ss, planner_id)
    THEN [ss EXCEPT ![IndexOf(ss, planner_id)].is_new = FALSE]
    ELSE ss


\* ------------------------------------------------------------------- llm.py
Models == {"p", "a", "b"}
Primary == "p"
DefaultChain == <<"opus-4.6-thinking", "auto">>
NoError == [msg |-> "", rate_limit |-> FALSE]
\* the exceptions a call raises; rate_limit: the text holds one of _RATE_LIMIT_KEYWORDS
Errors == {[msg |-> "HTTP 429 Too Many Requests", rate_limit |-> TRUE],
           [msg |-> "invalid api key", rate_limit |-> FALSE]}

is_rate_limit_error(e) == e.rate_limit

get_fallback_models(configured) ==
    IF configured # <<>> THEN configured ELSE DefaultChain

models_to_try_unfiltered(model, fallbacks) == <<model>> \o fallbacks

models_to_try(model, fallbacks) ==
    <<model>> \o SelectSeq(fallbacks, LAMBDA m : m # model)

Min(a, b) == IF a <= b THEN a ELSE b

backoff_delay_uncapped(base_delay, attempt, max_delay) == base_delay * (2 ^ attempt)

backoff_delay(base_delay, attempt, max_delay) ==
    Min(base_delay * (2 ^ attempt), max_delay)

has_next_attempt_off_by_one(attempt, max_retries) == attempt + 1 <= max_retries

\* range(max_retries) has an element after `attempt`
has_next_attempt(attempt, max_retries) == attempt + 1 < max_retries

retries_on_any(e) == TRUE

\* an error of this class keeps the attempts on the model going
retries_on(e) == is_rate_limit_error(e)

Response(m) == <<"response", m>>
AllModelsFailed(models, last_error) == <<"RuntimeError", models, last_error>>

ChatIdle ==
    [pc |-> "idle", model |-> Primary, fallbacks |-> <<>>, max_retries |-> 0,
     base_delay |-> 0, max_delay |-> 0, pos |-> 0, attempt |-> 0, log |-> <<>>,
     last_error |-> NoError, result |-> <<>>]

Candidates(c) == models_to_try(c.model, get_fallback_models(c.fallbacks))

\* the outer for loop moves to the next model, or falls out of the loop and raises
next_model(c) ==
    IF c.pos < Len(Candidates(c))
    THEN [c EXCEPT !.pc = "call", !.pos = c.pos + 1, !.attempt = 0]
    ELSE [c EXCEPT !.pc = "raised",
                   !.result = AllModelsFailed(Candidates(c), c.last_error)]

\* what the invocation did, in order: kind "call" with outcome "ok", "rate_limit"
\* or "error", and kind "sleep" with the delay slept
LogEntry(c, kind, outcome, delay) ==
    [kind |-> kind, pos |-> c.pos, model |-> Candidates(c)[c.pos],
     attempt |-> c.attempt, outcome |-> outcome, delay |-> delay]

outcome_of(e) == IF is_rate_limit_error(e) THEN "rate_limit" ELSE "error"

\* ---------------------------------------------------------------- worker.py
MAX_TOOL_ITERATIONS == 20
TOOLS == {"run_cmd", "read_file", "edit_file"}

\* a text is the sequence of its lines; "" is the empty text, <<>> here
Lines == {"# Summary", "# Handoff", "# Notes", "text", ""}
Markers == <<"# Summary", "# Handoff", "# What was done">>
Headings == {"# Summary", "# Handoff", "# What was done", "# Notes"}
SyntheticHandoff ==
    <<"# Summary", "Task processing reached iteration limit.",
      "# Notes / Concerns", "Max tool iterations reached.">>

text_strip(t) ==
    LET nb == {i \in 1..Len(t) : t[i] # ""}
    IN IF nb = {} THEN <<>>
       ELSE SubSeq(t, CHOOSE i \in nb : \A j \in nb : i <= j,
                      CHOOSE i \in nb : \A j \in nb : i >= j)

\* str.find: index of the first line where `start` begins, 0 for -1
text_find(t, start) ==
    LET at == {i \in 1..Len(t) : t[i] = start}
    IN IF at = {} THEN 0 ELSE CHOOSE i \in at : \A j \in at : i <= j

\* response.rfind("\n# "): the last heading that follows a line break
text_rfind_heading(t) ==
    LET at == {i \in 2..Len(t) : t[i] \in Headings}
    IN IF at = {} THEN 0 ELSE CHOOSE i \in at : \A j \in at : i >= j

text_from(t, i) == text_strip(SubSeq(t, i, Len(t)))

extract_handoff_from_response(response) ==
    IF text_find(response, Markers[1]) # 0
    THEN text_from(response, text_find(response, Markers[1]))
    ELSE IF text_find(response, Markers[2]) # 0
    THEN text_from(response, text_find(response, Markers[2]))
    ELSE IF text_find(response, Markers[3]) # 0
    THEN text_from(response, text_find(response, Markers[3]))
    ELSE IF text_rfind_heading(response) # 0
    THEN text_from(response, text_rfind_heading(response))
    ELSE text_strip(response)

\* the arguments of a tool call: each key is absent (None) or holds <<value>>
Arg(v) == <<v>>
NoArgs == [command |-> None, timeout |-> None, path |-> None, content |-> None,
           old |-> None]
args_get(v, default) == IF v = None THEN default ELSE v[1]

ToolText(t) == [kind |-> "text", value |-> t]
ToolRaise(e) == [kind |-> "raise", value |-> <<e>>]

\* what the tool meets in the file system and the subprocess
Envs ==
    [proc : {"ok", "timeout", "oserror"}, exists : BOOLEAN, is_file : BOOLEAN,
     io : {"ok", "error"}, has_old : BOOLEAN]

int_parses(s) == s \in {"5", "900", "120"}
capped_timeout(s) == IF s = "900" THEN "300" ELSE s
command_strip(c) == IF c = " " THEN "" ELSE c
outside_repo(path) == path = "../x"

tool_run_cmd(args, env) ==
    IF command_strip(args_get(args.command, "")) = ""
    THEN ToolText(<<"ERROR: command is empty">>)
    ELSE IF ~int_parses(args_get(args.timeout, "120"))
    THEN ToolRaise("ValueError")
    ELSE IF env.proc = "timeout"
    THEN ToolText(<<"ERROR: command timed out after",
                    capped_timeout(args_get(args.timeout, "120"))>>)
    ELSE IF env.proc = "oserror"
    THEN ToolText(<<"ERROR:", "OSError">>)
    ELSE ToolText(<<"stdout", "[exit_code]">>)

tool_read_file(args, env) ==
    IF args_get(args.path, "") = ""
    THEN ToolText(<<"ERROR: path is empty">>)
    ELSE IF outside_repo(args.path[1])
    THEN ToolText(<<"ERROR: path is outside the repository">>)
    ELSE IF ~env.exists
    THEN ToolText(<<"ERROR: file not found:", args.path[1]>>)
    ELSE IF ~env.is_file
    THEN ToolText(<<"ERROR: not a file:", args.path[1]>>)
    ELSE IF env.io = "error"
    THEN ToolText(<<"ERROR:", "OSError">>)
    ELSE ToolText(<<"content of", args.path[1]>>)

tool_edit_file(args, env) ==
    IF args_get(args.path, "") = ""
    THEN ToolText(<<"ERROR: path is empty">>)
    ELSE IF outside_repo(args.path[1])
    THEN ToolText(<<"ERROR: path is outside the repository">>)
    ELSE IF args.content # None
    THEN IF env.io = "error" THEN ToolRaise("OSError")
         ELSE ToolText(<<"OK: wrote", args.path[1]>>)
    ELSE IF args_get(args.old, "") # ""
    THEN IF ~env.exists
         THEN ToolText(<<"ERROR: file not found for replacement:", args.path[1]>>)
         ELSE IF env.io = "error" THEN ToolRaise("OSError")
         ELSE IF ~env.has_old
         THEN ToolText(<<"ERROR: old string not found in", args.path[1]>>)
         ELSE ToolText(<<"OK: replaced in", args.path[1]>>)
    ELSE ToolText(<<"ERROR: provide 'content' (full write) or 'old'+'new' (replace)">>)

call_tool(tool_name, args, env) ==
    IF tool_name = "run_cmd" THEN tool_run_cmd(args, env)
    ELSE IF tool_name = "read_file" THEN tool_read_file(args, env)
    ELSE tool_edit_file(args, env)

unknown_tool_result(tool_name) == <<"ERROR: unknown tool", tool_name, "Available:">>

\* an agent response: block is the <tool_call> block being there, has_tool its
\* "tool:" key being there, text the lines of the response
Response_of(block, has_tool, tool, args, text) ==
    [block |-> block, has_tool |-> has_tool, tool |-> tool, args |-> args, text |-> text]
NoResponse == Response_of(FALSE, FALSE, "", NoArgs, <<>>)

\* _parse_tool_call: tool_name is None (found FALSE) without a block or a tool key
parse_tool_call(response) ==
    [found |-> response.block /\ response.has_tool, tool_name |-> response.tool,
     args |-> response.args]

tool_known_any(tool_name) == TRUE

tool_known(tool_name) == tool_name \in TOOLS

budget_left_off_by_one(iteration) == iteration + 1 <= MAX_TOOL_ITERATIONS

\* range(_MAX_TOOL_ITERATIONS) has an element after `iteration`
budget_left(iteration) == iteration + 1 < MAX_TOOL_ITERATIONS

final_handoff_as_is(handoff_content) == handoff_content

\* run_worker, lines 255-256: an empty handoff is replaced by the synthetic one
final_handoff(handoff_content) ==
    IF handoff_content = <<>> THEN SyntheticHandoff ELSE handoff_content

\* the for loop goes to its next iteration, or ends and takes its else branch
next_iteration(w) ==
    IF budget_left(w.iteration)
    THEN [w EXCEPT !.pc = "chat", !.iteration = w.iteration + 1]
    ELSE [w EXCEPT !.pc = "limit"]

WorkerIdle ==
    [pc |-> "idle", iteration |-> 0, calls |-> 0, execs |-> 0, last_role |-> "none",
     feedback |-> <<>>, response |-> NoResponse, handoff_content |-> <<>>,
     file |-> Absent, ret |-> <<>>, error |-> "none"]

\* ---------------------------------------------------------------- runner.py
NoResult == [kind |-> "none", tasks |-> <<>>]
Returned(ids) == [kind |-> "returned", tasks |-> ids]
Raised == [kind |-> "raised", tasks |-> <<>>]

\* the planner run just applied: run_planner gave n tasks and k scopes;
\* subs0 of the runner is the size of the registry when the round took its
\* list of sub-planners to run
Applied(planner_id, n, k) == [planner_id |-> planner_id, n |-> n, k |-> k]
NoApplied == Applied(<<>>, 0, 0)

RunnerIdle(max_workers) ==
    [pc |-> "idle", max_workers |-> max_workers, toRun |-> <<>>, futs |-> <<>>,
     completed |-> <<>>, ret |-> NoResult, repo_exists |-> TRUE, done0 |-> {},
     applied |-> NoApplied, subs0 |-> 0]

RoundIdle ==
    /\ rnd = RunnerIdle(1)
    /\ seen = {}

worker_id_shared(task_id) == <<"w", 0>>

\* run_one, line 88: worker_id = f"w-{task.id}"
worker_id_of(task_id) == <<"w", task_id>>
\* run_one, lines 89 and 92: workers_root / worker_id / "handoff.md"
handoff_path_of(task_id) == Path(task_id)

RECURSIVE add_subs(_, _, _)
\* _run_planner_and_apply, lines 49-51: one add_sub for each delegation scope
add_subs(ss, planner_id, k) ==
    IF k = 0 THEN ss
    ELSE add_subs(PlannerRegistry_add_sub(ss, planner_id, "scope"), planner_id, k - 1)

new_tasks_root_owned(ts, planner_id, n) ==
    [i \in 1..n |-> Task(Len(ts) + i, Root, "d")]

\* parse_tasks_from_response: n new tasks of this planner, with ids uuid4 draws
new_tasks(ts, planner_id, n) ==
    [i \in 1..n |-> Task(Len(ts) + i, planner_id, "d")]

\* _run_planner_and_apply, lines 52-53
apply_tasks(ts, planner_id, n) ==
    IF n > 0 THEN TaskStore_add_many(ts, new_tasks(ts, planner_id, n)) ELSE ts

\* _run_planner_and_apply, lines 49-51 and 60-61
apply_subs(ss, planner_id, k) ==
    IF planner_id # Root
    THEN PlannerRegistry_mark_run(add_subs(ss, planner_id, k), planner_id)
    ELSE add_subs(ss, planner_id, k)

repo_available_always(repo_exists) == TRUE

\* run_one_round, line 79: self.repo_path.exists()
repo_available(repo_exists) == repo_exists

pool_unbounded(in_progress, max_workers) == TRUE

\* ThreadPoolExecutor(max_workers): a pool thread is free to take a call
pool_has_free_thread(in_progress, max_workers) == in_progress < max_workers

\* ids of the tasks that are done
done_ids(ts) == {ts[i].id : i \in {j \in 1..Len(ts) : ts[j].status = "done"}}

batch_from_end(pending, max_workers) ==
    SubSeq(pending, Len(pending) + 1 - Min(Len(pending), max_workers * 2), Len(pending))

\* run_one_round, line 105: pending[: self.max_workers * 2]
batch(pending, max_workers) == SubSeq(pending, 1, Min(Len(pending), max_workers * 2))

Fut(task_id) == [task_id |-> task_id, st |-> "queued", outcome |-> "none",
                 collected |-> FALSE]

\* ------------------------------------------------ threads calling the store
Threads == 1..NThreads
ThreadIdle == [pc |-> "idle", op |-> "none", task_id |-> 0, arg |-> None,
               snap |-> <<>>, ret |-> None]

ConcIdle ==
    /\ thr = [th \in Threads |-> ThreadIdle]
    /\ tasks0 = <<>>

\* ---------------------------------------------------------------- helpers
Range(seq) == {seq[i] : i \in 1..Len(seq)}
Ids(seq) == {seq[i].id : i \in 1..Len(seq)}
PlannerIds == {Root} \cup Ids(subs)
SeqsUpTo2(S) == {<<>>} \cup {<<a>> : a \in S} \cup {<<a, b>> : a \in S, b \in S}

\* ------------------------------------------ the store and registry, call by call
StoreInit ==
    /\ tasks = <<>>
    /\ disk = Absent
    /\ subs = <<>>
    /\ pdisk = Absent

Init ==
    /\ StoreInit
    /\ chat = ChatIdle
    /\ wk = WorkerIdle
    /\ ConcIdle
    /\ RoundIdle

Add ==
    \E id \in TaskIds, p \in OwnerIds, d \in Descriptions :
        /\ tasks' = TaskStore_add(tasks, Task(id, p, d))
        /\ disk' = File(TaskStore_snapshot(tasks'))
        /\ UNCHANGED <<subs, pdisk, llmVars, concVars, roundVars>>

AddMany ==
    \E ids \in SeqsUpTo2(TaskIds), p \in OwnerIds, d \in Descriptions :
        /\ tasks' = TaskStore_add_many(tasks, [i \in 1..Len(ids) |-> Task(ids[i], p, d)])
        /\ disk' = File(TaskStore_snapshot(tasks'))
        /\ UNCHANGED <<subs, pdisk, llmVars, concVars, roundVars>>

Claim ==
    \E id \in TaskIds, w \in WorkerIds :
        /\ tasks' = TaskStore_claim(tasks, id, w)
        /\ disk' = IF claim_ok(tasks, id) THEN File(TaskStore_snapshot(tasks')) ELSE disk
        /\ UNCHANGED <<subs, pdisk, llmVars, concVars, roundVars>>

Complete ==
    \E id \in TaskIds, h \in HandoffPaths :
        /\ tasks' = TaskStore_complete(tasks, id, h)
        /\ disk' = IF Has(tasks, id) THEN File(TaskStore_snapshot(tasks')) ELSE disk
        /\ UNCHANGED <<subs, pdisk, llmVars, concVars, roundVars>>

AddSub ==
    \E p \in PlannerIds, sc \in ScopeInputs :
        /\ Len(subs) < MaxSubs
        /\ subs' = PlannerRegistry_add_sub(subs, p, sc)
        /\ pdisk' = File(PlannerRegistry_snapshot(subs'))
        /\ UNCHANGED <<tasks, disk, llmVars, concVars, roundVars>>

MarkRun ==
    \E p \in PlannerIds \cup {SubId(MaxSubs + 1)} :
        /\ subs' = PlannerRegistry_mark_run(subs, p)
        /\ pdisk' = IF Has(subs, p) THEN File(PlannerRegistry_snapshot(subs')) ELSE pdisk
        /\ UNCHANGED <<tasks, disk, llmVars, concVars, roundVars>>

\* the process ends and a new TaskStore and PlannerRegistry are constructed
\* on the same session root
Restart ==
    /\ tasks' = TaskStore_load(disk)
    /\ subs' = PlannerRegistry_load(pdisk)
    /\ UNCHANGED <<disk, pdisk, llmVars, concVars, roundVars>>

Next == Add \/ AddMany \/ Claim \/ Complete \/ AddSub \/ MarkRun \/ Restart

Spec == Init /\ [][Next]_vars

\* ------------------------------------------------------- one invocation of chat
RECURSIVE SeqsUpTo(_, _)
SeqsUpTo(S, n) ==
    IF n = 0 THEN {<<>>}
    ELSE SeqsUpTo(S, n - 1) \cup
         {Append(q, x) : q \in {r \in SeqsUpTo(S, n - 1) : Len(r) = n - 1}, x \in S}

ChatInit ==
    /\ StoreInit
    /\ wk = WorkerIdle
    /\ ConcIdle
    /\ RoundIdle
    /\ \E fb \in SeqsUpTo(Models, MaxFallbacks), mr \in 0..MaxRetries,
          bd \in {1, 2}, md \in {3} :
        chat = [ChatIdle EXCEPT !.pc = "start", !.fallbacks = fb, !.max_retries = mr,
                                !.base_delay = bd, !.max_delay = md]

\* entry of the loops: with an empty range(max_retries) no model is called
ChatStart ==
    /\ chat.pc = "start"
    /\ chat' = IF chat.max_retries > 0
               THEN [chat EXCEPT !.pc = "call", !.pos = 1, !.attempt = 0]
               ELSE [chat EXCEPT !.pc = "raised",
                         !.result = AllModelsFailed(Candidates(chat), chat.last_error)]
    /\ UNCHANGED <<storeVars, wk, concVars, roundVars>>

ChatCallOk ==
    /\ chat.pc = "call"
    /\ chat' = [chat EXCEPT !.pc = "returned",
                            !.log = Append(chat.log, LogEntry(chat, "call", "ok", 0)),
                            !.result = Response(Candidates(chat)[chat.pos])]
    /\ UNCHANGED <<storeVars, wk, concVars, roundVars>>

ChatCallFails ==
    /\ chat.pc = "call"
    /\ \E e \in Errors :
        LET c == [chat EXCEPT !.log = Append(chat.log, LogEntry(chat, "call", outcome_of(e), 0)),
                              !.last_error = e]
        IN chat' = IF retries_on(e) THEN [c EXCEPT !.pc = "sleep"] ELSE next_model(c)
    /\ UNCHANGED <<storeVars, wk, concVars, roundVars>>

ChatSleep ==
    /\ chat.pc = "sleep"
    /\ LET d == backoff_delay(chat.base_delay, chat.attempt, chat.max_delay)
           c == [chat EXCEPT !.log = Append(chat.log, LogEntry(chat, "sleep", "sleep", d))]
       IN chat' = IF has_next_attempt(c.attempt, c.max_retries)
                  THEN [c EXCEPT !.pc = "call", !.attempt = c.attempt + 1]
                  ELSE next_model(c)
    /\ UNCHANGED <<storeVars, wk, concVars, roundVars>>

ChatNext == ChatStart \/ ChatCallOk \/ ChatCallFails \/ ChatSleep

SpecChat == ChatInit /\ [][ChatNext]_vars

\* ------------------------------------------- threads calling claim and complete
\* a store holding ConcTasks tasks, each pending or claimed earlier
ConcStores ==
    {ts \in [1..ConcTasks -> {"pending", "running"}] :  TRUE}

ConcStore(st) ==
    [i \in 1..ConcTasks |->
        IF st[i] = "pending" THEN Task(i, Root, "d")
        ELSE [Task(i, Root, "d") EXCEPT !.status = "running", !.worker_id = <<"w", 0>>]]

ClaimInit ==
    /\ \E st \in ConcStores : tasks = ConcStore(st)
    /\ disk = File(TaskStore_snapshot(tasks))
    /\ subs = <<>>
    /\ pdisk = Absent
    /\ chat = ChatIdle
    /\ wk = WorkerIdle
    /\ thr = [th \in Threads |-> ThreadIdle]
    /\ tasks0 = tasks
    /\ RoundIdle

SetThr(th, rec) == thr' = [thr EXCEPT ![th] = rec]

\* claim, line 78: t = self._tasks.get(task_id)
ClaimCall(th) ==
    /\ thr[th].pc = "idle"
    /\ \E id \in 1..(ConcTasks + 1) :
        SetThr(th, [thr[th] EXCEPT !.op = "claim", !.task_id = id, !.arg = <<"w", th>>,
                        !.pc = IF Has(tasks, id) THEN "claim_test" ELSE "returned"])
    /\ UNCHANGED <<storeVars, llmVars, tasks0, roundVars>>

\* claim, line 79: the test of t.status
ClaimTest(th) ==
    /\ thr[th].pc = "claim_test"
    /\ SetThr(th, [thr[th] EXCEPT !.pc =
            IF tasks[IndexOf(tasks, thr[th].task_id)].status = "pending"
            THEN "claim_status" ELSE "returned"])
    /\ UNCHANGED <<storeVars, llmVars, tasks0, roundVars>>

\* claim, line 80
ClaimSetStatus(th) ==
    /\ thr[th].pc = "claim_status"
    /\ tasks' = [tasks EXCEPT ![IndexOf(tasks, thr[th].task_id)].status = "running"]
    /\ SetThr(th, [thr[th] EXCEPT !.pc = "claim_worker"])
    /\ UNCHANGED <<disk, subs, pdisk, llmVars, tasks0, roundVars>>

\* claim, line 81
ClaimSetWorker(th) ==
    /\ thr[th].pc = "claim_worker"
    /\ tasks' = [tasks EXCEPT ![IndexOf(tasks, thr[th].task_id)].worker_id = thr[th].arg]
    /\ SetThr(th, [thr[th] EXCEPT !.pc = "save_build",
                       !.ret = <<"Task", thr[th].task_id>>])
    /\ UNCHANGED <<disk, subs, pdisk, llmVars, tasks0, roundVars>>

\* complete, line 87: task_id in self._tasks
CompleteCall(th) ==
    /\ thr[th].pc = "idle"
    /\ \E id \in 1..(ConcTasks + 1), h \in HandoffPaths :
        SetThr(th, [thr[th] EXCEPT !.op = "complete", !.task_id = id, !.arg = h,
                        !.pc = IF Has(tasks, id) THEN "complete_status" ELSE "returned"])
    /\ UNCHANGED <<storeVars, llmVars, tasks0, roundVars>>

\* complete, line 88
CompleteSetStatus(th) ==
    /\ thr[th].pc = "complete_status"
    /\ tasks' = [tasks EXCEPT ![IndexOf(tasks, thr[th].task_id)].status = "done"]
    /\ SetThr(th, [thr[th] EXCEPT !.pc = "complete_handoff"])
    /\ UNCHANGED <<disk, subs, pdisk, llmVars, tasks0, roundVars>>

\* complete, line 89
CompleteSetHandoff(th) ==
    /\ thr[th].pc = "complete_handoff"
    /\ tasks' = [tasks EXCEPT ![IndexOf(tasks, thr[th].task_id)].handoff_path = thr[th].arg]
    /\ SetThr(th, [thr[th] EXCEPT !.pc = "save_build"])
    /\ UNCHANGED <<disk, subs, pdisk, llmVars, tasks0, roundVars>>

\* _save, line 62: the comprehension reads one more task into the snapshot
SaveBuild(th) ==
    /\ thr[th].pc = "save_build"
    /\ LET i == Len(thr[th].snap) + 1
           entry == [key |-> tasks[i].id, val |-> Task_to_dict(tasks[i])]
       IN SetThr(th, [thr[th] EXCEPT !.snap = Append(thr[th].snap, entry),
                          !.pc = IF i = Len(tasks) THEN "save_write" ELSE "save_build"])
    /\ UNCHANGED <<storeVars, llmVars, tasks0, roundVars>>

\* _save, line 63: write_text, and then the return of claim or complete
SaveWrite(th) ==
    /\ thr[th].pc = "save_write"
    /\ disk' = File(thr[th].snap)
    /\ SetThr(th, [thr[th] EXCEPT !.pc = "returned"])
    /\ UNCHANGED <<tasks, subs, pdisk, llmVars, tasks0, roundVars>>

ClaimNext ==
    \E th \in Threads :
        \/ ClaimCall(th) \/ ClaimTest(th) \/ ClaimSetStatus(th) \/ ClaimSetWorker(th)
        \/ CompleteCall(th) \/ CompleteSetStatus(th) \/ CompleteSetHandoff(th)
        \/ SaveBuild(th) \/ SaveWrite(th)

SpecClaim == ClaimInit /\ [][ClaimNext]_vars

\* --------------------------------------------------- rounds of one HarnessRunner
WorkerCounts == {1, 2}

RoundInit ==
    /\ StoreInit
    /\ chat = ChatIdle
    /\ wk = WorkerIdle
    /\ ConcIdle
    /\ \E mw \in WorkerCounts : rnd = RunnerIdle(mw)
    /\ seen = {}

\* what one run_planner call yields: n task descriptions and k delegation scopes
TaskYields == 0..Min(2, MaxRoundTasks - Len(tasks))
SubYields == 0..Min(1, MaxRoundSubs - Len(subs))

\* _run_planner_and_apply for planner_id, run_planner returning n tasks and k scopes
PlannerApplied(planner_id, n, k) ==
    /\ subs' = apply_subs(subs, planner_id, k)
    /\ pdisk' = IF subs' # subs THEN File(PlannerRegistry_snapshot(subs')) ELSE pdisk
    /\ tasks' = apply_tasks(tasks, planner_id, n)
    /\ disk' = IF n > 0 THEN File(TaskStore_snapshot(tasks')) ELSE disk
    /\ seen' = seen \cup Ids(get_handoffs_for_planner(tasks, planner_id))

\* run_one_round, lines 67-68: the root planner runs
RunRootPlanner ==
    /\ rnd.pc = "idle"
    /\ \E n \in TaskYields, k \in SubYields :
        /\ PlannerApplied(Root, n, k)
        /\ rnd' = [rnd EXCEPT !.pc = "select", !.ret = NoResult, !.completed = <<>>,
                              !.repo_exists = TRUE, !.done0 = done_ids(tasks),
                              !.applied = Applied(Root, n, k)]
    /\ UNCHANGED <<llmVars, concVars>>

\* run_planner raises (chat found no model): run_one_round has no handler
RootPlannerFails ==
    /\ rnd.pc = "idle"
    /\ rnd' = [rnd EXCEPT !.pc = "idle", !.ret = Raised, !.completed = <<>>,
                          !.repo_exists = TRUE, !.done0 = done_ids(tasks)]
    /\ UNCHANGED <<storeVars, llmVars, concVars, seen>>

\* run_one_round, line 71: the list get_subs_to_run returns
SelectSubs ==
    /\ rnd.pc = "select"
    /\ rnd' = [rnd EXCEPT !.pc = "subs", !.applied = NoApplied, !.subs0 = Len(subs),
                          !.toRun = [i \in 1..Len(get_subs_to_run(subs, tasks)) |->
                                        get_subs_to_run(subs, tasks)[i].id]]
    /\ UNCHANGED <<storeVars, llmVars, concVars, seen>>

\* run_one_round, lines 72-73: the next sub-planner of the list runs
RunSubPlanner ==
    /\ rnd.pc = "subs"
    /\ rnd.toRun # <<>>
    /\ \E n \in TaskYields, k \in SubYields :
        /\ PlannerApplied(Head(rnd.toRun), n, k)
        /\ rnd' = [rnd EXCEPT !.toRun = Tail(rnd.toRun),
                              !.applied = Applied(Head(rnd.toRun), n, k)]
    /\ UNCHANGED <<llmVars, concVars>>

SubPlannerFails ==
    /\ rnd.pc = "subs"
    /\ rnd.toRun # <<>>
    /\ rnd' = [rnd EXCEPT !.pc = "idle", !.toRun = <<>>, !.ret = Raised,
                          !.applied = NoApplied, !.subs0 = 0]
    /\ UNCHANGED <<storeVars, llmVars, concVars, seen>>

\* run_one_round, lines 75-77: nothing is pending
ReturnNothingPending ==
    /\ rnd.pc = "subs"
    /\ rnd.toRun = <<>>
    /\ get_pending(tasks) = <<>>
    /\ rnd' = [rnd EXCEPT !.pc = "idle", !.ret = Returned(<<>>), !.applied = NoApplied,
                          !.subs0 = 0]
    /\ UNCHANGED <<storeVars, llmVars, concVars, seen>>

\* run_one_round, lines 79-81: self.repo_path does not exist
SkipWorkers ==
    /\ rnd.pc = "subs"
    /\ rnd.toRun = <<>>
    /\ get_pending(tasks) # <<>>
    /\ \E e \in BOOLEAN :
        /\ ~repo_available(e)
        /\ rnd' = [rnd EXCEPT !.pc = "idle", !.repo_exists = e, !.applied = NoApplied,
                              !.subs0 = 0,
                              !.ret = Returned([i \in 1..Len(get_pending(tasks)) |->
                                                   get_pending(tasks)[i].id])]
    /\ UNCHANGED <<storeVars, llmVars, concVars, seen>>

\* run_one_round, lines 83-105: the batch is submitted to the pool
Submit ==
    /\ rnd.pc = "subs"
    /\ rnd.toRun = <<>>
    /\ get_pending(tasks) # <<>>
    /\ \E e \in BOOLEAN :
        /\ repo_available(e)
        /\ LET b == batch(get_pending(tasks), rnd.max_workers)
           IN rnd' = [rnd EXCEPT !.pc = "dispatch", !.repo_exists = e, !.applied = NoApplied,
                                 !.subs0 = 0,
                                 !.futs = [i \in 1..Len(b) |-> Fut(b[i].id)]]
    /\ UNCHANGED <<storeVars, llmVars, concVars, seen>>

FutIndexes == 1..Len(rnd.futs)
InProgress(f) == f.st \in {"prepare", "claim", "work", "complete"}
Dispatching == rnd.pc \in {"dispatch", "aborting"}
SetFut(i, f) == rnd' = [rnd EXCEPT !.futs[i] = f]

\* a pool thread that is free takes the first queued call of run_one
RunOneStart ==
    \E i \in FutIndexes :
        /\ Dispatching
        /\ rnd.futs[i].st = "queued"
        /\ \A j \in 1..(i - 1) : rnd.futs[j].st # "queued"
        /\ pool_has_free_thread(
              Cardinality({j \in 1..Len(rnd.futs) : InProgress(rnd.futs[j])}),
              rnd.max_workers)
        /\ SetFut(i, [rnd.futs[i] EXCEPT !.st = "prepare"])
        /\ UNCHANGED <<storeVars, llmVars, concVars, seen>>

\* run_one, lines 88-92
RunOnePrepare ==
    \E i \in FutIndexes :
        /\ Dispatching
        /\ rnd.futs[i].st = "prepare"
        /\ SetFut(i, [rnd.futs[i] EXCEPT !.st = "claim"])
        /\ UNCHANGED <<storeVars, llmVars, concVars, seen>>

\* run_one, lines 90-91: mkdir or prepare_worker_repo raises, outside the try
RunOnePrepareFails ==
    \E i \in FutIndexes :
        /\ Dispatching
        /\ rnd.futs[i].st = "prepare"
        /\ SetFut(i, [rnd.futs[i] EXCEPT !.st = "finished", !.outcome = "raised"])
        /\ UNCHANGED <<storeVars, llmVars, concVars, seen>>

\* run_one, lines 93-95
RunOneClaim ==
    \E i \in FutIndexes :
        /\ Dispatching
        /\ rnd.futs[i].st = "claim"
        /\ LET id == rnd.futs[i].task_id
           IN /\ tasks' = TaskStore_claim(tasks, id, worker_id_of(id))
              /\ disk' = IF claim_ok(tasks, id) THEN File(TaskStore_snapshot(tasks')) ELSE disk
              /\ SetFut(i, IF claim_ok(tasks, id)
                           THEN [rnd.futs[i] EXCEPT !.st = "work"]
                           ELSE [rnd.futs[i] EXCEPT !.st = "finished", !.outcome = "None"])
        /\ UNCHANGED <<subs, pdisk, llmVars, concVars, seen>>

\* run_one, line 97: run_worker returns, the handoff is written
RunOneWorker ==
    \E i \in FutIndexes :
        /\ Dispatching
        /\ rnd.futs[i].st = "work"
        /\ SetFut(i, [rnd.futs[i] EXCEPT !.st = "complete"])
        /\ UNCHANGED <<storeVars, llmVars, concVars, seen>>

\* run_one, lines 100-102: run_worker raises and the handler returns None
RunOneWorkerFails ==
    \E i \in FutIndexes :
        /\ Dispatching
        /\ rnd.futs[i].st = "work"
        /\ SetFut(i, [rnd.futs[i] EXCEPT !.st = "finished", !.outcome = "None"])
        /\ UNCHANGED <<storeVars, llmVars, concVars, seen>>

\* run_one, lines 98-99
RunOneComplete ==
    \E i \in FutIndexes :
        /\ Dispatching
        /\ rnd.futs[i].st = "complete"
        /\ LET id == rnd.futs[i].task_id
           IN /\ tasks' = TaskStore_complete(tasks, id, handoff_path_of(id))
              /\ disk' = IF Has(tasks, id) THEN File(TaskStore_snapshot(tasks')) ELSE disk
              /\ SetFut(i, [rnd.futs[i] EXCEPT !.st = "finished", !.outcome = "Task"])
        /\ UNCHANGED <<subs, pdisk, llmVars, concVars, seen>>

\* run_one_round, lines 106-109: as_completed hands over a finished future
CollectResult ==
    \E i \in FutIndexes :
        /\ rnd.pc = "dispatch"
        /\ rnd.futs[i].st = "finished"
        /\ ~rnd.futs[i].collected
        /\ rnd' = IF rnd.futs[i].outcome = "raised"
                  THEN [rnd EXCEPT !.pc = "aborting", !.futs[i].collected = TRUE]
                  ELSE [rnd EXCEPT !.futs[i].collected = TRUE,
                                   !.completed = IF rnd.futs[i].outcome = "Task"
                                                 THEN Append(rnd.completed, rnd.futs[i].task_id)
                                                 ELSE rnd.completed]
        /\ UNCHANGED <<storeVars, llmVars, concVars, seen>>

\* run_one_round, line 111
ReturnCompleted ==
    /\ rnd.pc = "dispatch"
    /\ \A i \in 1..Len(rnd.futs) : rnd.futs[i].collected
    /\ rnd' = [rnd EXCEPT !.pc = "idle", !.futs = <<>>, !.ret = Returned(rnd.completed)]
    /\ UNCHANGED <<storeVars, llmVars, concVars, seen>>

\* fut.result() raised: the executor's exit waits for every future, then the
\* exception leaves run_one_round
RoundRaises ==
    /\ rnd.pc = "aborting"
    /\ \A i \in 1..Len(rnd.futs) : rnd.futs[i].st = "finished"
    /\ rnd' = [rnd EXCEPT !.pc = "idle", !.futs = <<>>, !.ret = Raised]
    /\ UNCHANGED <<storeVars, llmVars, concVars, seen>>

RoundNext ==
    \/ RunRootPlanner \/ RootPlannerFails \/ SelectSubs
    \/ RunSubPlanner \/ SubPlannerFails
    \/ ReturnNothingPending \/ SkipWorkers \/ Submit
    \/ RunOneStart
    \/ RunOnePrepare
    \/ RunOnePrepareFails
    \/ RunOneClaim
    \/ RunOneWorker
    \/ RunOneWorkerFails
    \/ RunOneComplete
    \/ CollectResult
    \/ ReturnCompleted \/ RoundRaises

SpecRound == RoundInit /\ [][RoundNext]_vars

\* rounds called one after another in which the working tree exists and no
\* planner run, preparation or worker run raises
RoundNextNoFailure ==
    \/ RunRootPlanner \/ SelectSubs
    \/ RunSubPlanner
    \/ ReturnNothingPending \/ Submit
    \/ RunOneStart
    \/ RunOnePrepare
    \/ RunOneClaim
    \/ RunOneWorker
    \/ RunOneComplete
    \/ CollectResult
    \/ ReturnCompleted

\* the pool runs every submitted call and the caller keeps calling run_one_round
SpecRoundFair == RoundInit /\ [][RoundNextNoFailure]_vars /\ WF_vars(RoundNextNoFailure)

\* ------------------------------------------------------ one call of run_worker
FinalTexts ==
    {<<>>, <<"">>, <<"text">>, <<"text", "# Summary", "text", "">>,
     <<"# Notes", "text">>, <<"text", "# Notes", "text">>, <<"", "# Handoff">>}

RunCmdArgs ==
    {[NoArgs EXCEPT !.command = c, !.timeout = t] :
        c \in {None, Arg(" "), Arg("ls")},
        t \in {None, Arg("5"), Arg("900"), Arg("abc")}}
ReadFileArgs ==
    {[NoArgs EXCEPT !.path = q] : q \in {None, Arg(""), Arg("f"), Arg("../x")}}
EditFileArgs ==
    {[NoArgs EXCEPT !.path = q, !.content = c, !.old = o] :
        q \in {Arg(""), Arg("f"), Arg("../x")}, c \in {None, Arg("c")},
        o \in {None, Arg(""), Arg("o")}}

\* the responses chat can hand to the worker
Responses ==
    {Response_of(FALSE, FALSE, "", NoArgs, t) : t \in FinalTexts}
    \cup {Response_of(TRUE, FALSE, "", NoArgs, t) : t \in {<<"text">>, <<"", "# Summary">>}}
    \cup {Response_of(TRUE, TRUE, "run_cmd", a, <<"text">>) : a \in RunCmdArgs}
    \cup {Response_of(TRUE, TRUE, "read_file", a, <<"text">>) : a \in ReadFileArgs}
    \cup {Response_of(TRUE, TRUE, "edit_file", a, <<"text">>) : a \in EditFileArgs}
    \cup {Response_of(TRUE, TRUE, n, NoArgs, <<"text">>) : n \in {"bogus", ""}}

WorkerInit ==
    /\ StoreInit
    /\ chat = ChatIdle
    /\ ConcIdle
    /\ RoundIdle
    /\ wk = [WorkerIdle EXCEPT !.pc = "start"]

\* run_worker, lines 183-209: the initial user message
WorkerStart ==
    /\ wk.pc = "start"
    /\ wk' = [wk EXCEPT !.pc = "chat", !.last_role = "user",
                        !.feedback = <<"## Task (from planner)">>]
    /\ UNCHANGED <<storeVars, chat, concVars, roundVars>>

\* run_worker, lines 213-214: chat returns and the response is appended
WorkerChatReturns ==
    /\ wk.pc = "chat"
    /\ \E r \in Responses :
        wk' = [wk EXCEPT !.pc = "parse", !.calls = wk.calls + 1, !.response = r,
                         !.last_role = "assistant", !.feedback = <<>>]
    /\ UNCHANGED <<storeVars, chat, concVars, roundVars>>

\* run_worker, line 213: chat raises (every model failed)
WorkerChatRaises ==
    /\ wk.pc = "chat"
    /\ wk' = [wk EXCEPT !.pc = "raised", !.calls = wk.calls + 1, !.error = "chat"]
    /\ UNCHANGED <<storeVars, chat, concVars, roundVars>>

\* run_worker, lines 223-227: no tool call, the response is the handoff
WorkerFinish ==
    /\ wk.pc = "parse"
    /\ ~parse_tool_call(wk.response).found
    /\ wk' = [wk EXCEPT !.pc = "write",
                        !.handoff_content = extract_handoff_from_response(wk.response.text)]
    /\ UNCHANGED <<storeVars, chat, concVars, roundVars>>

\* run_worker, lines 230-231 and 245-246: the tool name is not in _TOOLS
WorkerUnknownTool ==
    /\ wk.pc = "parse"
    /\ parse_tool_call(wk.response).found
    /\ ~tool_known(parse_tool_call(wk.response).tool_name)
    /\ wk' = next_iteration(
                [wk EXCEPT !.last_role = "user", !.response = NoResponse,
                           !.feedback = unknown_tool_result(parse_tool_call(wk.response).tool_name)])
    /\ UNCHANGED <<storeVars, chat, concVars, roundVars>>

\* run_worker, lines 233 and 245-246: the tool returns its text
WorkerToolReturns ==
    /\ wk.pc = "parse"
    /\ parse_tool_call(wk.response).found
    /\ tool_known(parse_tool_call(wk.response).tool_name)
    /\ \E env \in Envs :
        LET c == parse_tool_call(wk.response)
            r == call_tool(c.tool_name, c.args, env)
        IN /\ r.kind = "text"
           /\ wk' = next_iteration(
                       [wk EXCEPT !.last_role = "user", !.response = NoResponse,
                                  !.execs = wk.execs + 1, !.feedback = r.value])
    /\ UNCHANGED <<storeVars, chat, concVars, roundVars>>

\* run_worker, line 233: the tool raises, nothing in run_worker handles it
WorkerToolRaises ==
    /\ wk.pc = "parse"
    /\ parse_tool_call(wk.response).found
    /\ tool_known(parse_tool_call(wk.response).tool_name)
    /\ \E env \in Envs :
        LET c == parse_tool_call(wk.response)
            r == call_tool(c.tool_name, c.args, env)
        IN /\ r.kind = "raise"
           /\ wk' = [wk EXCEPT !.pc = "raised", !.execs = wk.execs + 1, !.error = "tool"]
    /\ UNCHANGED <<storeVars, chat, concVars, roundVars>>

\* run_worker, lines 247-253: the else branch of the for loop
WorkerLimit ==
    /\ wk.pc = "limit"
    /\ wk' = [wk EXCEPT !.pc = "write",
                        !.handoff_content =
                            IF wk.last_role = "assistant"
                            THEN extract_handoff_from_response(wk.response.text)
                            ELSE wk.handoff_content]
    /\ UNCHANGED <<storeVars, chat, concVars, roundVars>>

\* run_worker, lines 255-264: the handoff is written and returned
WorkerWrite ==
    /\ wk.pc = "write"
    /\ wk' = [wk EXCEPT !.pc = "returned",
                        !.handoff_content = final_handoff(wk.handoff_content),
                        !.file = File(final_handoff(wk.handoff_content)),
                        !.ret = final_handoff(wk.handoff_content)]
    /\ UNCHANGED <<storeVars, chat, concVars, roundVars>>

WorkerNext ==
    \/ WorkerStart \/ WorkerChatReturns \/ WorkerChatRaises \/ WorkerFinish
    \/ WorkerUnknownTool \/ WorkerToolReturns \/ WorkerToolRaises
    \/ WorkerLimit \/ WorkerWrite

SpecWorker == WorkerInit /\ [][WorkerNext]_vars

\* ======================================================================
\* The claims
\* ======================================================================

\* C1: when every thread calls claim on the same task, which was pending when
\* the calls began, exactly one call returns the task and the others return
\* None, whatever the interleaving of their steps.
ClaimExactlyOnce ==
    \A id \in 1..ConcTasks :
        ( /\ \A th \in Threads : /\ thr[th].pc = "returned"
                                 /\ thr[th].op = "claim"
                                 /\ thr[th].task_id = id
          /\ tasks0[id].status = "pending" )
        => Cardinality({th \in Threads : thr[th].ret # None}) = 1

\* C2: in every step a task's status stays as it is or moves pending -> running
\* or running -> done.
StatusOnlyAdvances ==
    [][\A id \in Ids(tasks) \cap Ids(tasks') :
          LET a == tasks[IndexOf(tasks, id)].status
              b == tasks'[IndexOf(tasks', id)].status
          IN \/ a = b
             \/ a = "pending" /\ b = "running"
             \/ a = "running" /\ b = "done"]_vars

\* C3: complete with an unknown id, or with the id of a task that is done,
\* leaves the task table as it was.
CompleteUnknownOrDoneIsNoOp ==
    \A id \in 1..(MaxTasks + 1), h \in HandoffPaths :
        (~Has(tasks, id) \/ tasks[IndexOf(tasks, id)].status = "done")
        => TaskStore_complete(tasks, id, h) = tasks

\* C4: add of a task whose id is in the store fails, and the record of that id
\* keeps its status, worker id and handoff reference.
AddFailsOnDuplicate ==
    \A id \in Ids(tasks), p \in OwnerIds, d \in Descriptions :
        LET old == tasks[IndexOf(tasks, id)]
            new == TaskStore_add(tasks, Task(id, p, d))[IndexOf(tasks, id)]
        IN /\ TaskStore_add_raises(tasks, Task(id, p, d))
           /\ new.status = old.status
           /\ new.worker_id = old.worker_id
           /\ new.handoff_path = old.handoff_path

\* C5: in the store re-created from the persisted ledger every task that was
\* pending or running is pending: get_pending returns it and claim takes it.
RestartRequeuesRunning ==
    LET re == TaskStore_load(disk)
    IN \A i \in 1..Len(tasks) :
        tasks[i].status \in {"pending", "running"}
        => /\ Len(re) = Len(tasks)
           /\ re[i].status = "pending"
           /\ re[i] \in Range(get_pending(re))
           /\ claim_ok(re, tasks[i].id)

ChatCalls == {i \in 1..Len(chat.log) : chat.log[i].kind = "call"}
ChatCallsOn(m) == {i \in ChatCalls : chat.log[i].model = m}
ChatCallsAt(k) == {i \in ChatCalls : chat.log[i].pos = k}
PrimaryAlwaysRateLimited ==
    \A i \in ChatCallsOn(chat.model) : chat.log[i].outcome = "rate_limit"
FallbackSuccesses ==
    {i \in ChatCalls : chat.log[i].model # chat.model /\ chat.log[i].outcome = "ok"}

\* C9: when every call on the primary model fails with a rate-limit error and
\* a call on a fallback model succeeds, chat returns that fallback's response
\* and has called the primary at most max_retries times.
FallbackAfterRateLimit ==
    (PrimaryAlwaysRateLimited /\ FallbackSuccesses # {})
    => /\ chat.pc = "returned"
       /\ \E i \in FallbackSuccesses : /\ i = Len(chat.log)
                                       /\ chat.result = Response(chat.log[i].model)
       /\ Cardinality(ChatCallsOn(chat.model)) <= chat.max_retries

FallbackAfterRateLimitWitness ==
    /\ chat.pc = "returned"
    /\ chat.max_retries = 2
    /\ PrimaryAlwaysRateLimited
    /\ Cardinality(ChatCallsOn(chat.model)) = 2
    /\ chat.result = Response("b")

\* C10 as stated: after a failure that is not rate-limit-classified the model
\* is not called again, nothing is slept, the next call is on the next
\* candidate, and a model whose first call fails so is called exactly once.
NonRateLimitFailureEndsModel ==
    \A i \in ChatCalls :
        chat.log[i].outcome = "error"
        => /\ \A j \in ChatCalls : j > i => chat.log[j].model # chat.log[i].model
           /\ i < Len(chat.log) => /\ chat.log[i + 1].kind = "call"
                                   /\ chat.log[i + 1].pos = chat.log[i].pos + 1
           /\ chat.log[i].attempt = 0
              => Cardinality(ChatCallsOn(chat.log[i].model)) = 1

\* C10 amended: the failure ends the attempts on that entry of the candidate
\* list; a model the list holds once is not called again, and is called
\* exactly once when its first call fails so.
ListedOnce(m) ==
    Cardinality({k \in 1..Len(Candidates(chat)) : Candidates(chat)[k] = m}) = 1

NonRateLimitFailureEndsCandidate ==
    \A i \in ChatCalls :
        chat.log[i].outcome = "error"
        => /\ \A j \in ChatCalls : j > i => chat.log[j].pos > chat.log[i].pos
           /\ i < Len(chat.log) => /\ chat.log[i + 1].kind = "call"
                                   /\ chat.log[i + 1].pos = chat.log[i].pos + 1
           /\ chat.log[i].attempt = 0
              => Cardinality(ChatCallsAt(chat.log[i].pos)) = 1
           /\ ListedOnce(chat.log[i].model)
              => /\ \A j \in ChatCalls : j > i => chat.log[j].model # chat.log[i].model
                 /\ chat.log[i].attempt = 0
                    => Cardinality(ChatCallsOn(chat.log[i].model)) = 1

NonRateLimitFailureWitness ==
    /\ chat.pc = "returned"
    /\ Len(chat.log) = 2
    /\ chat.log[1].outcome = "error" /\ chat.log[1].attempt = 0
    /\ chat.log[1].model = chat.model
    /\ chat.log[2].kind = "call" /\ chat.log[2].pos = 2

\* ----------------------------------------------------------------- rounds
\* the sub-planner owns a done task it has not been run with
HasNewHandoff(s) ==
    \E t \in Range(tasks) : t.planner_id = s.id /\ t.status = "done" /\ t.id \notin seen

\* C7: at every call, get_subs_to_run returns a sub-planner exactly when it
\* has never run or a task it owns reached done since its last run.
EligibleIffNewOrNewHandoff ==
    rnd.pc = "select"
    => \A s \in Range(subs) :
          s \in Range(get_subs_to_run(subs, tasks)) <=> (s.is_new \/ HasNewHandoff(s))

\* C8: at the planning step of every round a sub-planner that owns a done
\* task it has not been run with is returned by get_subs_to_run, and is in
\* the list the round runs.
NewHandoffNeverSuppressed ==
    /\ rnd.pc = "select"
       => \A s \in Range(subs) :
             HasNewHandoff(s) => s \in Range(get_subs_to_run(subs, tasks))
    /\ rnd.pc = "subs"
       => \A s \in Range(subs) : HasNewHandoff(s) => s.id \in Range(rnd.toRun)

NewHandoffNeverSuppressedWitness ==
    /\ rnd.pc = "subs"
    /\ \E s \in Range(subs) :
        /\ ~s.is_new
        /\ HasNewHandoff(s)
        /\ \E t \in Range(tasks) : t.planner_id = s.id /\ t.id \in seen
        /\ s.id \in Range(rnd.toRun)

\* ------------------------------------------------------- chat, continued
\* the candidate list the configuration asks for: the primary, then the
\* fallback chain (the default chain when none is configured) without the
\* entries equal to the primary
ExpectedCandidates ==
    LET fb == IF chat.fallbacks = <<>> THEN <<"opus-4.6-thinking", "auto">>
              ELSE chat.fallbacks
    IN <<chat.model>> \o SelectSeq(fb, LAMBDA m : m # chat.model)
ChatFailedCalls == {i \in ChatCalls : chat.log[i].outcome # "ok"}

\* C11: chat makes at most max_retries calls on each candidate and a bounded
\* number of steps in all; it raises only when every candidate has been
\* attempted, and the error names the candidates and carries the error of
\* the last failed call.
ExhaustionAfterEveryCandidate ==
    /\ \A k \in 1..Len(ExpectedCandidates) :
          Cardinality(ChatCallsAt(k)) <= chat.max_retries
    /\ Len(chat.log) <= 2 * chat.max_retries * Len(ExpectedCandidates)
    /\ chat.pc = "raised"
       => /\ \A k \in 1..Len(ExpectedCandidates) : ChatCallsAt(k) # {}
          /\ \A i \in ChatCalls : chat.log[i].outcome # "ok"
          /\ chat.last_error \in Errors
          /\ chat.result = <<"RuntimeError", ExpectedCandidates, chat.last_error>>

\* C12: the calls follow the candidate list, primary first; a candidate is
\* called only after every earlier one has failed; a successful call is
\* the last thing chat does and its response is what chat returns.
CandidatesInOrderFirstSuccessReturned ==
    /\ \A i \in ChatCalls :
          /\ chat.log[i].pos \in 1..Len(ExpectedCandidates)
          /\ chat.log[i].model = ExpectedCandidates[chat.log[i].pos]
          /\ \A k \in 1..(chat.log[i].pos - 1) :
                \E j \in ChatFailedCalls : j < i /\ chat.log[j].pos = k
          /\ \A j \in ChatCalls : j < i => chat.log[j].pos <= chat.log[i].pos
          /\ chat.log[i].outcome = "ok"
             => /\ i = Len(chat.log)
                /\ chat.pc = "returned"
                /\ chat.result = <<"response", ExpectedCandidates[chat.log[i].pos]>>
    /\ chat.pc = "returned"
       => Len(chat.log) > 0 /\ chat.log[Len(chat.log)].outcome = "ok"

CandidatesInOrderWitness ==
    /\ chat.pc = "returned"
    /\ chat.fallbacks = <<"p", "a">>
    /\ Len(chat.log) = 2
    /\ chat.log[1].model = "p" /\ chat.log[1].outcome = "error"
    /\ chat.log[2].model = "a" /\ chat.log[2].outcome = "ok"
    /\ chat.result = <<"response", "a">>

\* C13: the sleep after the rate-limit failure of attempt a lasts
\* min(base_delay * 2^a, max_delay); attempts count from 0 on every
\* candidate; the delay is at most max_delay and does not decrease over the
\* attempts on one candidate.
ChatSleeps == {i \in 1..Len(chat.log) : chat.log[i].kind = "sleep"}
BackoffDelayExact ==
    /\ \A i \in ChatSleeps :
          LET a == chat.log[i].attempt
              full == chat.base_delay * (2 ^ a)
          IN /\ i > 1
             /\ chat.log[i - 1].kind = "call"
             /\ chat.log[i - 1].outcome = "rate_limit"
             /\ chat.log[i - 1].attempt = a
             /\ chat.log[i - 1].pos = chat.log[i].pos
             /\ chat.log[i].delay = IF full <= chat.max_delay THEN full ELSE chat.max_delay
             /\ chat.log[i].delay <= chat.max_delay
             /\ \A j \in ChatSleeps :
                   (j < i /\ chat.log[j].pos = chat.log[i].pos)
                   => chat.log[j].delay <= chat.log[i].delay
    /\ \A i \in ChatCalls :
          /\ chat.log[i].outcome = "rate_limit" /\ i < Len(chat.log)
             => chat.log[i + 1].kind = "sleep"
          /\ chat.log[i].attempt =
                Cardinality({j \in ChatCalls : j < i /\ chat.log[j].pos = chat.log[i].pos})

BackoffDelayWitness ==
    /\ chat.base_delay = 2 /\ chat.max_delay = 3
    /\ \E i \in ChatSleeps, j \in ChatSleeps, k \in ChatSleeps :
        /\ chat.log[i].pos = 1 /\ chat.log[i].attempt = 0 /\ chat.log[i].delay = 2
        /\ chat.log[j].pos = 1 /\ chat.log[j].attempt = 1 /\ chat.log[j].delay = 3
        /\ chat.log[k].pos = 2 /\ chat.log[k].attempt = 0 /\ chat.log[k].delay = 2

\* ----------------------------------------------------------------- worker
\* C14: a run_worker call that returns has a non-empty handoff, the same text
\* in the file and in the return value; when the budget ran out on tool
\* calls, or the final response was empty, it is the synthetic document.
NonEmptyHandoffOnReturn ==
    wk.pc = "returned"
    => /\ wk.ret # <<>>
       /\ \E i \in 1..Len(wk.ret) : wk.ret[i] # ""
       /\ wk.file = [exists |-> TRUE, data |-> wk.ret]
       /\ wk.last_role = "user"
          => /\ wk.calls = 20
             /\ wk.ret = SyntheticHandoff
       /\ (wk.last_role = "assistant"
           /\ \A i \in 1..Len(wk.response.text) : wk.response.text[i] = "")
          => wk.ret = SyntheticHandoff

NonEmptyHandoffWitness ==
    /\ wk.pc = "returned"
    /\ wk.last_role = "user"
    /\ wk.calls = 20
    /\ wk.ret = SyntheticHandoff
    /\ wk.file.exists /\ wk.file.data = SyntheticHandoff

\* C15: one run_worker call makes at most 20 agent invocations and at most as
\* many tool executions; a response without a tool call ends the loop, and
\* after the loop has ended nothing is invoked or executed.
WorkerLoopBounded ==
    /\ [](wk.calls <= 20 /\ wk.execs <= 20 /\ wk.execs <= wk.calls)
    /\ [][/\ (wk.pc = "parse" /\ ~(wk.response.block /\ wk.response.has_tool))
             => (wk'.pc = "write" /\ wk'.calls = wk.calls /\ wk'.execs = wk.execs)
          /\ wk.pc \in {"limit", "write", "returned", "raised"}
             => (wk'.calls = wk.calls /\ wk'.execs = wk.execs
                 /\ wk'.pc \in {"write", "returned"})
          /\ wk'.calls \in {wk.calls, wk.calls + 1}
          /\ wk'.calls = wk.calls + 1 => wk.pc = "chat"
          /\ wk'.execs = wk.execs + 1 => wk.pc = "parse"]_vars

WorkerLoopBoundedWitness ==
    /\ wk.pc = "returned"
    /\ wk.calls = 20
    /\ wk.execs = 20

\* C16: a tool name outside the tool set executes nothing and does not end
\* the run: the 'unknown tool' text becomes the next user message and the
\* iteration is counted.
UnknownToolFedBack ==
    [][(/\ wk.pc = "parse"
        /\ wk.response.block /\ wk.response.has_tool
        /\ wk.response.tool \notin {"run_cmd", "read_file", "edit_file"})
       => /\ wk'.error = "none"
          /\ wk'.execs = wk.execs
          /\ wk'.calls = wk.calls
          /\ wk'.last_role = "user"
          /\ wk'.feedback = <<"ERROR: unknown tool", wk.response.tool, "Available:">>
          /\ IF wk.iteration < 19
             THEN wk'.pc = "chat" /\ wk'.iteration = wk.iteration + 1
             ELSE wk'.pc = "limit"]_vars

UnknownToolWitness ==
    /\ wk.pc = "chat"
    /\ wk.iteration = 1 /\ wk.calls = 1 /\ wk.execs = 0
    /\ wk.feedback = <<"ERROR: unknown tool", "bogus", "Available:">>

\* C17: no tool call, whatever the tool and its arguments, makes run_worker
\* raise: the failure is a text fed back and the loop goes on.
ToolFailureNeverRaises ==
    /\ wk.error # "tool"
    /\ wk.pc = "raised" => wk.error = "chat"

\* ----------------------------------------------------- rounds, continued
\* C18: the list run_one_round returns holds exactly the tasks that became
\* done during the round, also when dispatch was skipped.
ReturnsExactlyDoneThisRound ==
    (rnd.pc = "idle" /\ rnd.ret.kind = "returned")
    => /\ \A id \in Range(rnd.ret.tasks) :
             \E t \in Range(tasks) : t.id = id /\ t.status = "done"
       /\ Range(rnd.ret.tasks) = {t.id : t \in {u \in Range(tasks) : u.status = "done"}}
                                 \ rnd.done0

\* C19: a round that finds the working tree missing ends by returning,
\* with nothing submitted, claimed or run, and leaves every task that was
\* pending after planning pending, without worker id and handoff.
SkipLeavesTasksPending ==
    /\ [](~rnd.repo_exists
          => /\ rnd.pc = "idle" /\ rnd.ret.kind = "returned" /\ rnd.futs = <<>>
             /\ \A id \in Range(rnd.ret.tasks) :
                   \E t \in Range(tasks) :
                      /\ t.id = id /\ t.status = "pending"
                      /\ t.worker_id = <<>> /\ t.handoff_path = <<>>)
    /\ [][~rnd'.repo_exists
          => /\ tasks' = tasks /\ disk' = disk
             /\ rnd.repo_exists
                => /\ rnd.pc = "subs" /\ rnd.toRun = <<>>
                   /\ Range(rnd'.ret.tasks) =
                         {t.id : t \in {u \in Range(tasks) : u.status = "pending"}}]_vars

SkipLeavesTasksPendingWitness ==
    /\ ~rnd.repo_exists
    /\ rnd.pc = "idle"
    /\ Len(rnd.ret.tasks) = 2
    /\ \E t \in Range(tasks) : t.status = "done"

\* C20: at most max_workers calls of run_one are in progress at any moment;
\* with max_workers = 1 a call starts only when every earlier one has
\* finished.
RunOneStarted(f) == f.st # "queued"
WorkerConcurrencyBounded ==
    /\ Cardinality({i \in 1..Len(rnd.futs) :
                       rnd.futs[i].st \notin {"queued", "finished"}}) <= rnd.max_workers
    /\ rnd.max_workers = 1
       => \A i \in 1..Len(rnd.futs), j \in 1..Len(rnd.futs) :
             (i # j /\ RunOneStarted(rnd.futs[i]) /\ RunOneStarted(rnd.futs[j]))
             => (rnd.futs[i].st = "finished" \/ rnd.futs[j].st = "finished")

WorkerConcurrencyWitness ==
    /\ rnd.max_workers = 1
    /\ Len(rnd.futs) = 2
    /\ rnd.futs[1].st = "finished" /\ rnd.futs[1].outcome = "Task"
    /\ rnd.futs[2].st = "work"

\* C21: an exception inside one task's dispatch does not abort the round and
\* leaves that task running; the other dispatches go on.
DispatchFailureIsolated ==
    /\ rnd.pc # "aborting"
    /\ \A i \in 1..Len(rnd.futs) :
          rnd.futs[i].outcome = "raised"
          => \E t \in Range(tasks) : t.id = rnd.futs[i].task_id /\ t.status = "running"

\* C22: when a sub-planner's run fails, the round goes on with the rest of
\* the sub-planners it selected and then with the dispatch.
PlannerFailureContained ==
    [][(rnd.pc = "subs" /\ rnd.toRun # <<>> /\ rnd' # rnd)
       => /\ rnd'.pc = "subs"
          /\ rnd'.toRun = Tail(rnd.toRun)
          /\ rnd'.ret.kind # "raised"]_vars

\* C23: a round starts with the one run of the root planner, then runs the
\* eligible sub-planners one at a time in registry order, and claims or
\* dispatches a task only after the last planner run.
EligibleInRegistryOrder ==
    LET el == SelectSeq(subs, LAMBDA s :
                  s.is_new \/ \E t \in Range(tasks) : t.planner_id = s.id /\ t.status = "done")
    IN [i \in 1..Len(el) |-> el[i].id]
NewTasks == {t \in Range(tasks') : \A u \in Range(tasks) : u.id # t.id}
OrderInsideRound ==
    /\ [](rnd.pc \in {"select", "subs"} => rnd.futs = <<>>)
    /\ [](rnd.futs # <<>> => rnd.toRun = <<>>)
    /\ [][/\ (rnd.pc = "idle" /\ rnd' # rnd)
             => (rnd'.pc = "select" \/ rnd'.ret.kind = "raised")
          /\ \A t \in NewTasks :
                IF t.planner_id = <<"root">> THEN rnd.pc = "idle"
                ELSE rnd.pc = "subs" /\ rnd.toRun # <<>> /\ t.planner_id = Head(rnd.toRun)
          /\ (rnd.pc = "select" /\ rnd' # rnd)
             => (rnd'.pc = "subs" /\ rnd'.toRun = EligibleInRegistryOrder)
          /\ (rnd.pc = "subs" /\ rnd.toRun # <<>> /\ rnd'.pc = "subs")
             => /\ rnd'.toRun = Tail(rnd.toRun)
                /\ \E s \in Range(subs') : s.id = Head(rnd.toRun) /\ ~s.is_new
          /\ (\E i \in 1..Len(tasks) :
                 tasks[i].status = "pending" /\ tasks'[i].status # "pending")
             => (rnd.pc \in {"dispatch", "aborting"} /\ rnd.toRun = <<>>)]_vars

OrderInsideRoundWitness ==
    /\ rnd.pc = "subs"
    /\ rnd.toRun = <<SubId(2)>>
    /\ Len(subs) = 2
    /\ ~subs[1].is_new /\ subs[2].is_new
    /\ \E t \in Range(tasks) : t.planner_id = SubId(1) /\ t.status = "done"

SubUnchanged(P, old, new) == new = old
SubUnchangedButMarked(P, old, new) ==
    IF old.id = P THEN new = [old EXCEPT !.is_new = FALSE] ELSE new = old

\* C24 as stated: a planner run of P with n task descriptions and k scopes
\* appends n pending tasks of P without worker id and handoff and k new
\* sub-planners of parent P, and changes no task and no sub-planner that
\* existed before.
PlannerRunAdds(sameSubs(_, _, _)) ==
    rnd'.applied.planner_id # <<>>
    => LET P == rnd'.applied.planner_id
           n == rnd'.applied.n
           k == rnd'.applied.k
       IN /\ Len(tasks') = Len(tasks) + n
          /\ \A i \in 1..Len(tasks) : tasks'[i] = tasks[i]
          /\ \A i \in (Len(tasks) + 1)..Len(tasks') :
                /\ tasks'[i].planner_id = P
                /\ tasks'[i].status = "pending"
                /\ tasks'[i].worker_id = <<>> /\ tasks'[i].handoff_path = <<>>
                /\ \A j \in 1..Len(tasks') : j # i => tasks'[j].id # tasks'[i].id
          /\ Len(subs') = Len(subs) + k
          /\ \A i \in 1..Len(subs) : sameSubs(P, subs[i], subs'[i])
          /\ \A i \in (Len(subs) + 1)..Len(subs') :
                /\ subs'[i].parent_id = P
                /\ subs'[i].is_new
                /\ \A j \in 1..Len(subs') : j # i => subs'[j].id # subs'[i].id

PlannerRunAddsOnly == [][PlannerRunAdds(SubUnchanged)]_vars

\* C24 amended: the same, except that the run of a sub-planner P clears P's
\* own never-yet-run flag.
PlannerRunAddsAndMarks == [][PlannerRunAdds(SubUnchangedButMarked)]_vars

PlannerRunAddsWitness ==
    /\ rnd.applied = [planner_id |-> SubId(1), n |-> 2, k |-> 1]
    /\ Len(subs) = 2 /\ subs[2].parent_id = SubId(1) /\ subs[2].is_new
    /\ ~subs[1].is_new
    /\ Len(tasks) = 3 /\ tasks[1].status = "done"
    /\ tasks[2].planner_id = SubId(1) /\ tasks[3].planner_id = SubId(1)

\* C25: a sub-planner is created with the never-yet-run flag true; the flag
\* changes only at the end of that sub-planner's own run, from true to
\* false, and is false after every run of it; mark_run on the root id or an
\* unknown id changes nothing, and no sub-planner's id, scope or parent
\* ever changes.
NeverYetRunFlagLifecycle ==
    /\ [](/\ PlannerRegistry_mark_run(subs, <<"root">>) = subs
          /\ PlannerRegistry_mark_run(subs, <<"sub", Len(subs) + 1>>) = subs
          /\ \A i \in 1..Len(subs) :
                LET after == PlannerRegistry_mark_run(subs, subs[i].id)
                IN /\ Len(after) = Len(subs)
                   /\ ~after[i].is_new
                   /\ \A j \in 1..Len(subs) :
                         /\ after[j].id = subs[j].id
                         /\ after[j].scope = subs[j].scope
                         /\ after[j].parent_id = subs[j].parent_id
                         /\ j # i => after[j] = subs[j])
    /\ [][/\ Len(subs') >= Len(subs)
          /\ \A i \in (Len(subs) + 1)..Len(subs') : subs'[i].is_new
          /\ \A i \in 1..Len(subs) :
                /\ subs'[i].id = subs[i].id
                /\ subs'[i].scope = subs[i].scope
                /\ subs'[i].parent_id = subs[i].parent_id
                /\ subs'[i].is_new => subs[i].is_new
                /\ subs'[i].is_new # subs[i].is_new
                   => rnd'.applied.planner_id = subs[i].id
                /\ rnd'.applied.planner_id = subs[i].id => ~subs'[i].is_new]_vars

NeverYetRunFlagWitness ==
    /\ rnd.applied.planner_id = SubId(2)
    /\ Len(subs) = 2
    /\ ~subs[1].is_new /\ ~subs[2].is_new
    /\ subs[2].parent_id = SubId(1)

\* C26: get_pending returns the pending tasks, each once and no other task,
\* in the order of their creation (task ids count the creations here), and
\* a step that claims or completes tasks keeps the order of the tasks
\* that stay pending.
PositionIn(seq, id) == CHOOSE i \in 1..Len(seq) : seq[i].id = id
PendingInCreationOrder ==
    /\ [](LET p == get_pending(tasks)
          IN /\ {p[i] : i \in 1..Len(p)} = {t \in Range(tasks) : t.status = "pending"}
             /\ \A i \in 1..Len(p), j \in 1..Len(p) : i < j => p[i].id < p[j].id)
    /\ [][LET p == get_pending(tasks)
              q == get_pending(tasks')
          IN \A a \in 1..Len(p), b \in 1..Len(p) :
                (/\ a < b
                 /\ \E i \in 1..Len(q) : q[i].id = p[a].id
                 /\ \E i \in 1..Len(q) : q[i].id = p[b].id)
                => PositionIn(q, p[a].id) < PositionIn(q, p[b].id)]_vars

PendingInCreationOrderWitness ==
    /\ Len(tasks) = 3
    /\ tasks[1].status = "running"
    /\ tasks[2].status = "pending"
    /\ tasks[3].status = "pending"
    /\ rnd.pc = "dispatch"
    /\ get_pending(tasks) = <<tasks[2], tasks[3]>>

\* ------------------------------------------------------ the store, continued
\* C27: a task has a handoff reference exactly when it is done, and a done
\* task keeps the reference its completion recorded.
HandoffIffDone ==
    /\ [](\A t \in Range(tasks) : (t.handoff_path # <<>>) <=> (t.status = "done"))
    /\ [][\A i \in 1..Len(tasks) :
             (tasks[i].status = "done" /\ tasks'[i].status = "done")
             => tasks'[i].handoff_path = tasks[i].handoff_path]_vars

\* C28: claim and complete change no task but the one named, keep its id,
\* planner_id and description, and remove nothing; a claim of an absent or
\* non-pending task changes nothing; a successful claim changes only the
\* status and the worker id.
SameButFor(old, new, i) ==
    /\ Len(new) = Len(old)
    /\ \A j \in 1..Len(old) :
          /\ new[j].id = old[j].id
          /\ new[j].planner_id = old[j].planner_id
          /\ new[j].description = old[j].description
          /\ j # i => new[j] = old[j]
ClaimCompleteFrame ==
    \A id \in 1..(MaxTasks + 1), w \in {<<"w", 1>>, <<"w", 2>>},
       h \in {<<"path", 1>>, <<"path", 2>>} :
        LET i == IF \E j \in 1..Len(tasks) : tasks[j].id = id
                 THEN CHOOSE j \in 1..Len(tasks) : tasks[j].id = id ELSE 0
            claimed == TaskStore_claim(tasks, id, w)
            completed == TaskStore_complete(tasks, id, h)
        IN /\ SameButFor(tasks, claimed, i)
           /\ SameButFor(tasks, completed, i)
           /\ (i = 0 \/ tasks[i].status # "pending") => claimed = tasks
           /\ (i # 0 /\ tasks[i].status = "pending")
              => claimed = [tasks EXCEPT ![i].status = "running", ![i].worker_id = w]
           /\ i = 0 => completed = tasks

ClaimCompleteFrameWitness ==
    /\ Len(tasks) = 2
    /\ tasks[1].status = "done" /\ tasks[1].worker_id = <<"w", 1>>
    /\ tasks[2].status = "pending"
    /\ TaskStore_claim(tasks, 1, <<"w", 2>>) = tasks
    /\ TaskStore_claim(tasks, 2, <<"w", 2>>) # tasks

\* C29: run_worker starts for a task only in the step that claims it, the
\* task was pending and is running with the worker id made from its id
\* after the claim, and a task that left pending never returns to it: no
\* task is run twice by one runner.
NoDoubleDispatch ==
    /\ [](/\ \A i \in 1..Len(rnd.futs), j \in 1..Len(rnd.futs) :
                i # j => rnd.futs[i].task_id # rnd.futs[j].task_id
          /\ \A i \in 1..Len(rnd.futs) :
                rnd.futs[i].st \in {"work", "complete"}
                => \E t \in Range(tasks) :
                      /\ t.id = rnd.futs[i].task_id
                      /\ t.status = "running"
                      /\ t.worker_id = <<"w", t.id>>)
    /\ [][/\ \A i \in 1..Len(tasks) :
                /\ tasks[i].status # "pending" => tasks'[i].status # "pending"
                /\ tasks[i].status = "done" => tasks'[i] = tasks[i]
                /\ tasks[i].status = "running"
                   => tasks'[i].worker_id = tasks[i].worker_id
                /\ (tasks[i].status = "pending" /\ tasks'[i].status # "pending")
                   => /\ tasks'[i].status = "running"
                      /\ tasks'[i].worker_id = <<"w", tasks[i].id>>
          /\ \A i \in 1..Len(rnd'.futs) :
                (/\ rnd'.futs[i].st = "work"
                 /\ (i > Len(rnd.futs) \/ rnd.futs[i].st # "work"))
                => /\ i <= Len(rnd.futs) /\ rnd.futs[i].st = "claim"
                   /\ \E j \in 1..Len(tasks) :
                         /\ tasks[j].id = rnd'.futs[i].task_id
                         /\ tasks[j].status = "pending"
                         /\ tasks'[j].status = "running"]_vars

NoDoubleDispatchWitness ==
    /\ rnd.pc = "dispatch"
    /\ Len(tasks) = 3
    /\ tasks[1].status = "done" /\ tasks[1].worker_id = <<"w", 1>>
    /\ tasks[2].status = "running" /\ rnd.done0 = {1}
    /\ \E i \in 1..Len(rnd.futs) : rnd.futs[i].task_id = 3 /\ rnd.futs[i].st = "work"
    /\ \A i \in 1..Len(rnd.futs) : rnd.futs[i].task_id # 2

\* C30: when the threads have claimed and completed different tasks and all
\* calls have returned, tasks.json holds the table as it is in memory.
LedgerMatchesMemory ==
    (/\ \A th \in Threads : thr[th].pc = "returned"
     /\ \A a \in Threads, b \in Threads : a # b => thr[a].task_id # thr[b].task_id)
    => disk = [exists |-> TRUE, data |-> TaskStore_snapshot(tasks)]

\* ------------------------------------------------------ the registry, continued
RECURSIVE ReachesRoot(_, _)
\* following parent references from planner id p reaches root within fuel steps
ReachesRoot(p, fuel) ==
    IF p = Root THEN TRUE
    ELSE IF fuel = 0 \/ ~Has(subs, p) THEN FALSE
    ELSE ReachesRoot(subs[IndexOf(subs, p)].parent_id, fuel - 1)

\* C31: each sub-planner's parent is root or a sub-planner registered before
\* it, so parent references lead to root without revisiting a planner; a
\* sub-planner's scope and parent never change and none is removed.
ParentsFormTree ==
    /\ [](/\ \A i \in 1..Len(subs) :
                /\ \/ subs[i].parent_id = Root
                   \/ \E j \in 1..(i - 1) : subs[j].id = subs[i].parent_id
                /\ ReachesRoot(subs[i].id, Len(subs))
          /\ \A i \in 1..Len(subs), j \in 1..Len(subs) :
                subs[i].id = subs[j].id => i = j)
    /\ [][/\ Len(subs') >= Len(subs)
          /\ \A i \in 1..Len(subs) :
                /\ subs'[i].id = subs[i].id
                /\ subs'[i].parent_id = subs[i].parent_id
                /\ subs'[i].scope = subs[i].scope]_vars

ParentsFormTreeWitness ==
    /\ Len(subs) = 2
    /\ subs[1].parent_id = Root /\ ~subs[1].is_new
    /\ subs[2].parent_id = subs[1].id
    /\ rnd.applied.planner_id = subs[1].id /\ rnd.applied.k = 1

\* --------------------------------------------------------- rounds, continued
FutIds == [i \in 1..Len(rnd.futs) |-> rnd.futs[i].task_id]
PendingIds(ts) == [i \in 1..Len(get_pending(ts)) |-> get_pending(ts)[i].id]
StatusOf(id) == IF Has(tasks, id) THEN tasks[IndexOf(tasks, id)].status ELSE "absent"

ToRunIds(ss, ts) == [i \in 1..Len(get_subs_to_run(ss, ts)) |-> get_subs_to_run(ss, ts)[i].id]

\* C33: the sub-planners a round runs are fixed after the root planner's run
\* and before the first sub-planner's run: one the root planner registered in
\* the round is run in it, one a sub-planner's run registered in the round is
\* not run in it, stays never-yet-run and is run in the next round. A
\* sub-planner counts as run when run_planner was called for it, also when
\* that call raised.
SubsToRunFixedOnce ==
    /\ [][(rnd.pc = "select" /\ rnd'.pc = "subs")
          => /\ rnd'.toRun = ToRunIds(subs, tasks)
             /\ \A i \in 1..Len(subs) :
                   subs[i].is_new => \E j \in 1..Len(rnd'.toRun) : rnd'.toRun[j] = subs[i].id]_vars
    /\ [][(rnd.pc = "subs" /\ rnd'.pc = "subs")
          => /\ rnd'.toRun = Tail(rnd.toRun)
             /\ \A i \in 1..Len(subs) :
                   subs'[i].is_new # subs[i].is_new => subs[i].id = Head(rnd.toRun)]_vars
    /\ [](rnd.pc = "subs"
          => \A i \in (rnd.subs0 + 1)..Len(subs) :
                /\ subs[i].is_new
                /\ subs[i].parent_id # Root
                /\ \A j \in 1..Len(rnd.toRun) : rnd.toRun[j] # subs[i].id)
    /\ [][(rnd.pc = "subs" /\ rnd'.pc # "subs")
          => \A i \in 1..rnd.subs0 :
                subs[i].is_new => (rnd.toRun # <<>> /\ subs[i].id = Head(rnd.toRun))]_vars

====
